---- MODULE Spec2Model ----
(***************************************************************************)
(* Focus navigation of the SeedSigner screen templates                     *)
(* (src/seedsigner/gui/screens.py) together with the TopNav component      *)
(* (src/seedsigner/gui/components.py).                                     *)
(*                                                                         *)
(* One screen object is constructed, display()ed and then driven by the    *)
(* keys that hw_inputs.wait_for returns, until _run returns or raises      *)
(* (Spec).  TextArea.__post_init__ lays one text out in one box, one call  *)
(* of _binary_len_search per step (TextAreaSpec).  Fonts.get_font is       *)
(* called any number of times (FontsSpec).                                 *)
(***************************************************************************)
EXTENDS Integers, Sequences, FiniteSets, TLC

\* ------------------------------------------------------------------ bounds
MaxButtons == 4     \* longest button_labels list given to ButtonListScreen
MaxKeys == 5        \* number of keys delivered to one run loop
MaxLen == 5         \* longest text given to TextArea, in characters
RecursionLimit == 10 \* deepest chain of _binary_len_search calls Python allows
MaxCalls == 4       \* number of Fonts.get_font calls

\* --------------------------------------------------------------- constants
RET_CODE__BACK_BUTTON == -1
RET_CODE__POWER_BUTTON == -2
\* Python's None, encoded as an integer that is neither an index nor a
\* sentinel (None == 0 is False in Python, and so it is here).
None == -3

EDGE_PADDING == 8
COMPONENT_PADDING == 8

KEY_UP == "KEY_UP"
KEY_DOWN == "KEY_DOWN"
KEY_LEFT == "KEY_LEFT"
KEY_RIGHT == "KEY_RIGHT"
KEY_PRESS == "KEY_PRESS"

TextTopNavScreen == "TextTopNavScreen"
ButtonListScreen == "ButtonListScreen"
LargeButtonScreen == "LargeButtonScreen"

VARIABLES
    screen,                   \* which template was constructed
    len_buttons,              \* len(self.buttons); 0 for TextTopNavScreen
    show_back_button,         \* TopNav.show_back_button
    show_power_button,        \* TopNav.show_power_button
    top_nav_is_selected,      \* self.top_nav.is_selected
    back_button_is_selected,  \* self.top_nav.back_button.is_selected
    power_button_is_selected, \* self.top_nav.power_button.is_selected
    buttons_is_selected,      \* [i |-> self.buttons[i].is_selected]
    selected_button,          \* self.selected_button (None when unset)
    pc,                       \* "constructed", "wait", "returned", "raised"
    ret,                      \* value returned by _run
    canvas,                   \* how each component was last drawn
    shown,                    \* the canvas as of the last show_image()
    ops,                      \* canvas operations of the last step, in order
    keys,                     \* keys returned by wait_for so far
    trace                     \* focus state at each wait_for, then at exit

VARIABLES
    text,                     \* TextArea.text, a sequence of characters
    box_width,                \* the width argument TextArea was given
    box_height,               \* the height argument TextArea was given
    width,                    \* TextArea.width
    height,                   \* TextArea.height
    font_size,                \* TextArea.font_size
    supersampling_factor,     \* TextArea.supersampling_factor (None or int)
    is_text_centered,         \* TextArea.is_text_centered
    font,                     \* TextArea.font: pixel size of the loaded font
    line_spacing,             \* TextArea.line_spacing
    text_height,              \* TextArea.text_height
    text_lines,               \* TextArea.text_lines
    text_y,                   \* TextArea.text_y (None until assigned)
    words,                    \* words, the tokens not yet on a line
    min_index,                \* argument of the running _binary_len_search
    max_index,                \* argument of the running _binary_len_search
    depth,                    \* _binary_len_search frames on the stack
    runs,                     \* one record per finished search from (0, len)
    ta_pc                     \* position in TextArea.__post_init__

VARIABLES
    fonts,                    \* Fonts.fonts: font_name -> size -> handle
    loads,                    \* ImageFont.truetype calls so far, in order
    calls                     \* get_font calls so far and what each returned

config == <<screen, len_buttons, show_back_button, show_power_button>>
focus == <<top_nav_is_selected, back_button_is_selected,
           power_button_is_selected, buttons_is_selected, selected_button>>
screen_vars == <<screen, len_buttons, show_back_button, show_power_button,
                 top_nav_is_selected, back_button_is_selected,
                 power_button_is_selected, buttons_is_selected, selected_button,
                 pc, ret, canvas, shown, ops, keys, trace>>
text_area_vars == <<text, box_width, box_height, width, height, font_size,
                    supersampling_factor, is_text_centered, font, line_spacing,
                    text_height, text_lines, text_y, words, min_index,
                    max_index, depth, runs, ta_pc>>
fonts_vars == <<fonts, loads, calls>>
vars == <<screen_vars, text_area_vars, fonts_vars>>

\* No TextArea is being laid out.
TextAreaIdle ==
    /\ text = <<>>
    /\ box_width = 0
    /\ box_height = 0
    /\ width = 0
    /\ height = 0
    /\ font_size = 0
    /\ supersampling_factor = None
    /\ is_text_centered = TRUE
    /\ font = None
    /\ line_spacing = None
    /\ text_height = None
    /\ text_lines = <<>>
    /\ text_y = None
    /\ words = <<>>
    /\ min_index = 0
    /\ max_index = 0
    /\ depth = 0
    /\ runs = <<>>
    /\ ta_pc = "idle"

\* Fonts.fonts = {} and nobody calls get_font.
FontsIdle ==
    /\ fonts = <<>>
    /\ loads = <<>>
    /\ calls = <<>>

\* ----------------------------------------------------------------- helpers
Snapshot ==
    [top_nav |-> top_nav_is_selected,
     buttons |-> buttons_is_selected,
     selected_button |-> selected_button]

DrawnAs(is_selected) == IF is_selected THEN "selected" ELSE "normal"

Op(name, index, is_selected) ==
    [op |-> name, index |-> index, is_selected |-> is_selected]

ClearOp == Op("clear", -1, FALSE)
ShowOp == Op("show", -1, FALSE)
TextAreaOp == Op("text_area", -1, FALSE)
TopNavOp(is_selected) == Op("top_nav", -1, is_selected)
ButtonOp(i, is_selected) == Op("button", i, is_selected)

BlankCanvas ==
    [top_nav |-> "blank", back_button |-> "blank", power_button |-> "blank",
     text_area |-> FALSE,
     buttons |-> [i \in 0..(len_buttons - 1) |-> "blank"]]

\* TopNav.render(): repaints the bar, then each configured icon button with
\* the TopNav's own flag.
TopNav_render(cv, is_selected) ==
    [cv EXCEPT !.top_nav = DrawnAs(is_selected),
               !.back_button = IF show_back_button
                                  THEN DrawnAs(is_selected) ELSE "blank",
               !.power_button = IF show_power_button
                                   THEN DrawnAs(is_selected) ELSE "blank"]

\* A button painted in its normal state whatever its flag.
Button_render_always_normal(cv, i, is_selected) ==
    [cv EXCEPT !.buttons[i] = "normal"]

\* Button.render()
Button_render(cv, i, is_selected) ==
    [cv EXCEPT !.buttons[i] = DrawnAs(is_selected)]

\* The assignments TopNav.render() makes to its icon buttons' flags.
TopNavFlags(is_selected) ==
    /\ back_button_is_selected' =
           IF show_back_button THEN is_selected ELSE back_button_is_selected
    /\ power_button_is_selected' =
           IF show_power_button THEN is_selected ELSE power_button_is_selected

\* The property with the power button tested before the back button.
TopNav_selected_button_power_first(is_selected, back, power) ==
    IF ~is_selected THEN None
    ELSE IF power THEN RET_CODE__POWER_BUTTON
    ELSE IF back THEN RET_CODE__BACK_BUTTON
    ELSE None

TopNav_selected_button_swapped(is_selected, back, power) ==
    IF ~is_selected THEN None
    ELSE IF back THEN RET_CODE__POWER_BUTTON
    ELSE IF power THEN RET_CODE__BACK_BUTTON
    ELSE None

\* TopNav.selected_button (property)
TopNav_selected_button(is_selected, back, power) ==
    IF ~is_selected THEN None
    ELSE IF back THEN RET_CODE__BACK_BUTTON
    ELSE IF power THEN RET_CODE__POWER_BUTTON
    ELSE None

\* -------------------------------------------------------------------- Init
\* The state after __post_init__: TextTopNavScreen has no buttons;
\* ButtonListScreen needs at least one label (buttons[0] is indexed);
\* LargeButtonScreen raises unless it has 2 or 4 buttons.
Init ==
    /\ screen \in {TextTopNavScreen, ButtonListScreen, LargeButtonScreen}
    /\ len_buttons \in
           CASE screen = TextTopNavScreen -> {0}
             [] screen = ButtonListScreen -> 1..MaxButtons
             [] screen = LargeButtonScreen -> {2, 4}
    /\ show_back_button \in BOOLEAN
    /\ show_power_button \in BOOLEAN
    /\ top_nav_is_selected = FALSE
    /\ back_button_is_selected = FALSE
    /\ power_button_is_selected = FALSE
    /\ buttons_is_selected = [i \in 0..(len_buttons - 1) |-> i = 0]
    /\ selected_button = IF screen = TextTopNavScreen THEN None ELSE 0
    /\ pc = "constructed"
    /\ ret = None
    /\ canvas = BlankCanvas
    /\ shown = BlankCanvas
    /\ ops = <<>>
    /\ keys = <<>>
    /\ trace = <<Snapshot>>
    /\ TextAreaIdle
    /\ FontsIdle

\* ----------------------------------------------------------------- display
RECURSIVE RenderButtons(_, _)
\* for button in self.buttons: button.render()   -- from index i on
RenderButtons(cv, i) ==
    IF i >= len_buttons THEN cv
    ELSE RenderButtons(Button_render(cv, i, buttons_is_selected[i]), i + 1)

RECURSIVE ButtonOps(_)
ButtonOps(i) ==
    IF i >= len_buttons THEN <<>>
    ELSE <<ButtonOp(i, buttons_is_selected[i])>> \o ButtonOps(i + 1)

\* display() with the canvas cleared after the TopNav was drawn.
Display_clear_late ==
    /\ pc = "constructed"
    /\ TopNavFlags(top_nav_is_selected)
    /\ IF screen = TextTopNavScreen
          THEN /\ canvas' = [TopNav_render(BlankCanvas, top_nav_is_selected)
                                EXCEPT !.text_area = TRUE]
               /\ ops' = <<TopNavOp(top_nav_is_selected), ClearOp,
                           TopNavOp(top_nav_is_selected), TextAreaOp, ShowOp>>
          ELSE /\ canvas' = RenderButtons(BlankCanvas, 0)
               /\ ops' = <<TopNavOp(top_nav_is_selected), ClearOp>>
                             \o ButtonOps(0) \o <<ShowOp>>
    /\ shown' = canvas'
    /\ pc' = "wait"
    /\ UNCHANGED <<config, top_nav_is_selected, buttons_is_selected,
                   selected_button, ret, keys, trace>>
    /\ UNCHANGED <<text_area_vars, fonts_vars>>

\* BaseScreen.display(): _render(), show_image(), then enter _run().
Display ==
    /\ pc = "constructed"
    /\ TopNavFlags(top_nav_is_selected)
    /\ IF screen = TextTopNavScreen
          THEN \* BaseTopNavScreen._render, top_nav.render, text_area.render
               /\ canvas' = [TopNav_render(BlankCanvas, top_nav_is_selected)
                                EXCEPT !.text_area = TRUE]
               /\ ops' = <<ClearOp, TopNavOp(top_nav_is_selected),
                           TopNavOp(top_nav_is_selected), TextAreaOp, ShowOp>>
          ELSE \* BaseTopNavScreen._render, then every button
               /\ canvas' = RenderButtons(
                                TopNav_render(BlankCanvas, top_nav_is_selected), 0)
               /\ ops' = <<ClearOp, TopNavOp(top_nav_is_selected)>>
                             \o ButtonOps(0) \o <<ShowOp>>
    /\ shown' = canvas'
    /\ pc' = "wait"
    /\ UNCHANGED <<config, top_nav_is_selected, buttons_is_selected,
                   selected_button, ret, keys, trace>>
    /\ UNCHANGED <<text_area_vars, fonts_vars>>

\* --------------------------------------------------------- common step ends
\* wait_for returned key k to the run loop of screen s.
Waits(s, k) ==
    /\ pc = "wait"
    /\ screen = s
    /\ Len(keys) < MaxKeys
    /\ keys' = Append(keys, k)
    /\ UNCHANGED <<text_area_vars, fonts_vars>>

\* End of a loop iteration: show_image(), then wait again.
Continue(new_canvas, new_ops) ==
    /\ canvas' = new_canvas
    /\ ops' = new_ops \o <<ShowOp>>
    /\ shown' = new_canvas
    /\ pc' = "wait"
    /\ ret' = ret
    /\ trace' = Append(trace, Snapshot')

\* return value
Return(value) ==
    /\ pc' = "returned"
    /\ ret' = value
    /\ ops' = <<>>
    /\ UNCHANGED <<focus, canvas, shown>>
    /\ trace' = Append(trace, Snapshot')

\* An exception leaves _run before anything was assigned in this iteration.
Raise ==
    /\ pc' = "raised"
    /\ ops' = <<>>
    /\ UNCHANGED <<focus, ret, canvas, shown>>
    /\ trace' = Append(trace, Snapshot')

\* -------------------------------------------------------- TextTopNavScreen
TextTopNavScreen_KEY_UP ==
    /\ Waits(TextTopNavScreen, KEY_UP)
    /\ UNCHANGED <<config, buttons_is_selected, selected_button>>
    /\ IF ~top_nav_is_selected
          THEN /\ top_nav_is_selected' = TRUE
               /\ TopNavFlags(TRUE)
               /\ Continue(TopNav_render(canvas, TRUE), <<TopNavOp(TRUE)>>)
          ELSE /\ UNCHANGED <<top_nav_is_selected, back_button_is_selected,
                              power_button_is_selected>>
               /\ Continue(canvas, <<>>)

TextTopNavScreen_KEY_DOWN ==
    /\ Waits(TextTopNavScreen, KEY_DOWN)
    /\ UNCHANGED <<config, buttons_is_selected, selected_button>>
    /\ IF top_nav_is_selected
          THEN /\ top_nav_is_selected' = FALSE
               /\ TopNavFlags(FALSE)
               /\ Continue(TopNav_render(canvas, FALSE), <<TopNavOp(FALSE)>>)
          ELSE /\ UNCHANGED <<top_nav_is_selected, back_button_is_selected,
                              power_button_is_selected>>
               /\ Continue(canvas, <<>>)

TextTopNavScreen_KEY_PRESS_unguarded ==
    /\ Waits(TextTopNavScreen, KEY_PRESS)
    /\ UNCHANGED config
    /\ Return(TopNav_selected_button(top_nav_is_selected,
                  show_back_button, show_power_button))

TextTopNavScreen_KEY_PRESS ==
    /\ Waits(TextTopNavScreen, KEY_PRESS)
    /\ UNCHANGED config
    /\ IF top_nav_is_selected
          THEN Return(TopNav_selected_button(top_nav_is_selected,
                          show_back_button, show_power_button))
          ELSE /\ UNCHANGED focus
               /\ Continue(canvas, <<>>)

\* ------------------------------------------------- button selection helpers
\* self.buttons[i] exists.  The run loops never produce a negative index, so
\* Python's negative indexing is not modelled; None is not an index.
IsIndex(i, n) == i \in 0..(n - 1)

Deselected_noop(flags, i) == flags

\* self.buttons[i].is_selected = False
Deselected(flags, i) == [flags EXCEPT ![i] = FALSE]

\* self.buttons[i].is_selected = True
Selected(flags, i) == [flags EXCEPT ![i] = TRUE]

\* Deselect and render the current button, move selected_button to new_index,
\* select and render that one (the else-branches of ButtonListScreen._run and
\* LargeButtonScreen._run.swap_selected_button).
SwapSelectedButton(new_index) ==
    /\ buttons_is_selected' =
           Selected(Deselected(buttons_is_selected, selected_button), new_index)
    /\ selected_button' = new_index
    /\ UNCHANGED <<top_nav_is_selected, back_button_is_selected,
                   power_button_is_selected>>
    /\ Continue(Button_render(Button_render(canvas, selected_button, FALSE),
                              new_index, TRUE),
                <<ButtonOp(selected_button, FALSE), ButtonOp(new_index, TRUE)>>)

\* A loop iteration that assigns and draws nothing.
Pass ==
    /\ UNCHANGED focus
    /\ Continue(canvas, <<>>)

\* -------------------------------------------------------- ButtonListScreen
AtLastButton_never(index, n) == FALSE

\* self.selected_button == len(self.buttons) - 1
AtLastButton(index, n) == index = n - 1

ButtonListScreen_KEY_UP ==
    /\ Waits(ButtonListScreen, KEY_UP)
    /\ UNCHANGED config
    /\ IF selected_button = 0
          THEN \* Move selection up to top_nav
               /\ buttons_is_selected' =
                      Deselected(buttons_is_selected, selected_button)
               /\ selected_button' = None
               /\ top_nav_is_selected' = TRUE
               /\ TopNavFlags(TRUE)
               /\ Continue(TopNav_render(
                               Button_render(canvas, selected_button, FALSE), TRUE),
                           <<ButtonOp(selected_button, FALSE), TopNavOp(TRUE)>>)
          ELSE IF ~IsIndex(selected_button, len_buttons)
                  THEN \* self.buttons[None]: TypeError
                       Raise
                  ELSE SwapSelectedButton(selected_button - 1)

ButtonListScreen_KEY_DOWN ==
    /\ Waits(ButtonListScreen, KEY_DOWN)
    /\ UNCHANGED config
    /\ IF top_nav_is_selected
          THEN /\ top_nav_is_selected' = FALSE
               /\ TopNavFlags(FALSE)
               /\ selected_button' = 0
               /\ buttons_is_selected' = Selected(buttons_is_selected, 0)
               /\ Continue(Button_render(TopNav_render(canvas, FALSE), 0, TRUE),
                           <<TopNavOp(FALSE), ButtonOp(0, TRUE)>>)
          ELSE IF AtLastButton(selected_button, len_buttons)
                  THEN Pass
                  ELSE SwapSelectedButton(selected_button + 1)

ButtonListScreen_KEY_PRESS ==
    /\ Waits(ButtonListScreen, KEY_PRESS)
    /\ UNCHANGED config
    /\ IF top_nav_is_selected
          THEN Return(TopNav_selected_button(top_nav_is_selected,
                          show_back_button, show_power_button))
          ELSE Return(selected_button)

\* ------------------------------------------------------- LargeButtonScreen
HasSecondRow_always(n) == TRUE

\* len(self.buttons) == 4
HasSecondRow(n) == n = 4

RowBelow_next(index) == index + 1

\* self.selected_button + 2
RowBelow(index) == index + 2

\* self.selected_button - 2
RowAbove(index) == index - 2

LargeButtonScreen_KEY_UP ==
    /\ Waits(LargeButtonScreen, KEY_UP)
    /\ UNCHANGED config
    /\ IF selected_button \in {0, 1}
          THEN \* Move selection up to top_nav
               /\ top_nav_is_selected' = TRUE
               /\ TopNavFlags(TRUE)
               /\ buttons_is_selected' =
                      Deselected(buttons_is_selected, selected_button)
               /\ UNCHANGED selected_button
               /\ Continue(Button_render(TopNav_render(canvas, TRUE),
                                         selected_button, FALSE),
                           <<TopNavOp(TRUE), ButtonOp(selected_button, FALSE)>>)
          ELSE IF HasSecondRow(len_buttons)
                  THEN SwapSelectedButton(RowAbove(selected_button))
                  ELSE Pass

LargeButtonScreen_KEY_DOWN ==
    /\ Waits(LargeButtonScreen, KEY_DOWN)
    /\ UNCHANGED config
    /\ IF top_nav_is_selected
          THEN /\ top_nav_is_selected' = FALSE
               /\ TopNavFlags(FALSE)
               /\ buttons_is_selected' =
                      Selected(buttons_is_selected, selected_button)
               /\ UNCHANGED selected_button
               /\ Continue(Button_render(TopNav_render(canvas, FALSE),
                                         selected_button, TRUE),
                           <<TopNavOp(FALSE), ButtonOp(selected_button, TRUE)>>)
          ELSE IF selected_button \in {2, 3}
                  THEN Pass
                  ELSE IF HasSecondRow(len_buttons)
                          THEN SwapSelectedButton(RowBelow(selected_button))
                          ELSE Pass

\* The Right branch without its "not on TopNav" condition.
LargeButtonScreen_KEY_RIGHT_unguarded ==
    /\ Waits(LargeButtonScreen, KEY_RIGHT)
    /\ UNCHANGED config
    /\ IF selected_button \in {0, 2}
          THEN SwapSelectedButton(selected_button + 1)
          ELSE Pass

LargeButtonScreen_KEY_RIGHT ==
    /\ Waits(LargeButtonScreen, KEY_RIGHT)
    /\ UNCHANGED config
    /\ IF ~top_nav_is_selected /\ selected_button \in {0, 2}
          THEN SwapSelectedButton(selected_button + 1)
          ELSE Pass

LargeButtonScreen_KEY_LEFT ==
    /\ Waits(LargeButtonScreen, KEY_LEFT)
    /\ UNCHANGED config
    /\ IF ~top_nav_is_selected /\ selected_button \in {1, 3}
          THEN SwapSelectedButton(selected_button - 1)
          ELSE Pass

LargeButtonScreen_KEY_PRESS ==
    /\ Waits(LargeButtonScreen, KEY_PRESS)
    /\ UNCHANGED config
    /\ IF top_nav_is_selected
          THEN Return(TopNav_selected_button(top_nav_is_selected,
                          show_back_button, show_power_button))
          ELSE Return(selected_button)

\* -------------------------------------------------------------------- Next
Next ==
    \/ Display
    \/ TextTopNavScreen_KEY_UP
    \/ TextTopNavScreen_KEY_DOWN
    \/ TextTopNavScreen_KEY_PRESS
    \/ ButtonListScreen_KEY_UP
    \/ ButtonListScreen_KEY_DOWN
    \/ ButtonListScreen_KEY_PRESS
    \/ LargeButtonScreen_KEY_UP
    \/ LargeButtonScreen_KEY_DOWN
    \/ LargeButtonScreen_KEY_RIGHT
    \/ LargeButtonScreen_KEY_LEFT
    \/ LargeButtonScreen_KEY_PRESS

Spec == Init /\ [][Next]_vars

\* No screen is on display.
ScreenIdle ==
    /\ screen = TextTopNavScreen
    /\ len_buttons = 0
    /\ show_back_button = FALSE
    /\ show_power_button = FALSE
    /\ top_nav_is_selected = FALSE
    /\ back_button_is_selected = FALSE
    /\ power_button_is_selected = FALSE
    /\ buttons_is_selected = <<>>
    /\ selected_button = None
    /\ pc = "idle"
    /\ ret = None
    /\ canvas = BlankCanvas
    /\ shown = BlankCanvas
    /\ ops = <<>>
    /\ keys = <<>>
    /\ trace = <<>>

\* ================================================================ TextArea
\* A text is a sequence of characters: a narrow glyph, a wide glyph, a space.
Chars == {"a", "W", " "}
Texts == UNION {[1..n -> Chars] : n \in 0..MaxLen}
BoxWidths == {20, 36}
BoxHeights == {2, 40}
FontSizes == {4, 20}
SupersamplingFactors == {None, 1, 2}

\* int(x / 2): true division, then truncation towards zero.
IntHalf(x) == IF x >= 0 THEN x \div 2 ELSE -((-x) \div 2)

\* The advance of one glyph in a font of the given pixel size.
GlyphWidth(c, px) ==
    CASE c = "a" -> px \div 2
      [] c = "W" -> px
      [] c = " " -> px \div 4

RECURSIVE TextWidth(_, _)
TextWidth(t, px) ==
    IF t = <<>> THEN 0 ELSE GlyphWidth(Head(t), px) + TextWidth(Tail(t), px)

\* font.getsize(t) for the font of pixel size px: (width, height).  The
\* height is that of a line of glyphs; the empty text has no extent.
getsize(t, px) == [w |-> TextWidth(t, px), h |-> IF t = <<>> THEN 0 ELSE px]

RECURSIVE split(_)
\* t.split(" "): a token between every two spaces, empty ones included.
split(t) ==
    IF t = <<>> THEN << <<>> >>
    ELSE LET rest == split(Tail(t))
         IN  IF Head(t) = " "
                THEN << <<>> >> \o rest
                ELSE << <<Head(t)>> \o Head(rest) >> \o Tail(rest)

RECURSIVE join(_)
\* " ".join(ws)
join(ws) ==
    IF ws = <<>> THEN <<>>
    ELSE IF Len(ws) = 1 THEN ws[1]
    ELSE ws[1] \o <<" ">> \o join(Tail(ws))

\* words[0:index]
Leading(ws, index) ==
    SubSeq(ws, 1, IF index < Len(ws) THEN index ELSE Len(ws))

RestOfWords_skip(ws, index) == SubSeq(ws, index + 2, Len(ws))

\* words[index:]
RestOfWords(ws, index) == SubSeq(ws, index + 1, Len(ws))

\* self.width - (2 * EDGE_PADDING * self.supersampling_factor)
UsableWidth(w, ssf) == w - (2 * EDGE_PADDING * ssf)

\* int(0.25 * self.font_size)
LineSpacing(fs) == fs \div 4

\* _add_text_line(t, tw) appended to lines, for a TextArea of width w.
AddTextLine(lines, t, tw, w, ssf, centered) ==
    Append(lines, [text |-> t,
                   text_x |-> IF centered THEN IntHalf(w - tw)
                                          ELSE ssf * EDGE_PADDING])

\* math.ceil((max_index + min_index) / 2)
Midpoint(lo, hi) == (hi + lo + 1) \div 2

TooLong_orEqual(tw, usable) == tw >= usable

TooLong_never(tw, usable) == FALSE

\* tw > self.width - (2 * EDGE_PADDING * self.supersampling_factor)
TooLong(tw, usable) == tw > usable

NoRoomLeft_never(lo, index) == FALSE

\* min_index + 1 == index
NoRoomLeft(lo, index) == lo + 1 = index

Converged_always(index, hi) == TRUE

\* index == max_index
Converged(index, hi) == index = hi

\* self.text_height * len(self.text_lines)
\*     + self.line_spacing * (len(self.text_lines) - 1)
TotalTextHeight(th, n, ls) == th * n + ls * (n - 1)

\* The fields as the dataclass __init__ leaves them, before __post_init__.
TextAreaInit ==
    /\ text \in Texts
    /\ box_width \in BoxWidths
    /\ box_height \in BoxHeights
    /\ width = box_width
    /\ height = box_height
    /\ font_size \in FontSizes
    /\ supersampling_factor \in SupersamplingFactors
    /\ is_text_centered \in BOOLEAN
    /\ font = None
    /\ line_spacing = None
    /\ text_height = None
    /\ text_lines = <<>>
    /\ text_y = None
    /\ words = <<>>
    /\ min_index = 0
    /\ max_index = 0
    /\ depth = 0
    /\ runs = <<>>
    /\ ta_pc = "start"
    /\ ScreenIdle
    /\ FontsIdle

\* __post_init__ up to the first call of _binary_len_search, or to its end
\* when the whole text fits on one line.
TextArea_post_init ==
    /\ ta_pc = "start"
    /\ supersampling_factor' =
           IF supersampling_factor \in {None, 0} THEN 2 ELSE supersampling_factor
    /\ font' = supersampling_factor' * font_size
    /\ width' = supersampling_factor' * width
    /\ height' = supersampling_factor' * height
    /\ line_spacing' = LineSpacing(font_size)
    /\ text_height' = getsize(text, font').h
    /\ LET tw == getsize(text, font').w
       IN  IF tw < UsableWidth(width', supersampling_factor')
              THEN \* The whole text fits on one line
                   /\ text_lines' = AddTextLine(text_lines, text, tw, width',
                                        supersampling_factor', is_text_centered)
                   /\ text_y' = IntHalf((supersampling_factor' * height')
                                            - text_height')
                   /\ ta_pc' = "done"
                   /\ UNCHANGED <<words, min_index, max_index, depth>>
              ELSE /\ words' = split(text)
                   /\ min_index' = 0
                   /\ max_index' = Len(words')
                   /\ depth' = 1
                   /\ ta_pc' = "search"
                   /\ UNCHANGED <<text_lines, text_y>>
    /\ UNCHANGED <<text, box_width, box_height, font_size, is_text_centered,
                   runs>>
    /\ UNCHANGED <<screen_vars, fonts_vars>>

\* One call _binary_len_search(min_index, max_index): it recurses, or it
\* returns to the while loop, which adds the line and cuts words.
TextArea_binary_len_search ==
    /\ ta_pc = "search"
    /\ LET index0 == Midpoint(min_index, max_index)
           index == IF index0 = 0 THEN 1 ELSE index0
           tw == getsize(join(Leading(words, index)), font).w
           Recurse(lo, hi) ==
               /\ UNCHANGED <<words, text_lines, runs>>
               /\ IF depth + 1 > RecursionLimit
                     THEN \* RecursionError
                          /\ ta_pc' = "RecursionError"
                          /\ UNCHANGED <<min_index, max_index, depth>>
                     ELSE /\ min_index' = lo
                          /\ max_index' = hi
                          /\ depth' = depth + 1
                          /\ ta_pc' = "search"
       IN  IF TooLong(tw, UsableWidth(width, supersampling_factor))
              THEN Recurse(min_index,
                           IF NoRoomLeft(min_index, index) THEN index - 1
                                                           ELSE index)
              ELSE IF Converged(index, max_index)
                      THEN /\ text_lines' =
                                  AddTextLine(text_lines,
                                      join(Leading(words, index)), tw, width,
                                      supersampling_factor, is_text_centered)
                           /\ runs' = Append(runs, [words |-> words,
                                                    index |-> index,
                                                    tw |-> tw,
                                                    calls |-> depth])
                           /\ words' = RestOfWords(words, index)
                           /\ min_index' = 0
                           /\ max_index' = Len(words')
                           /\ depth' = IF words' = <<>> THEN 0 ELSE 1
                           /\ ta_pc' = IF words' = <<>> THEN "check" ELSE "search"
                      ELSE Recurse(index, max_index)
    /\ UNCHANGED <<text, box_width, box_height, width, height, font_size,
                   supersampling_factor, is_text_centered, font, line_spacing,
                   text_height, text_y>>
    /\ UNCHANGED <<screen_vars, fonts_vars>>

\* The height check and text_y of the multi-line branch.
TextArea_check_height ==
    /\ ta_pc = "check"
    /\ LET total_text_height ==
               TotalTextHeight(text_height, Len(text_lines), line_spacing)
       IN  IF total_text_height >
                  height + 2 * COMPONENT_PADDING * supersampling_factor
              THEN \* Exception("Text cannot fit in target rect ...")
                   /\ ta_pc' = "raised"
                   /\ UNCHANGED text_y
              ELSE /\ text_y' = IntHalf(height - total_text_height)
                   /\ ta_pc' = "done"
    /\ UNCHANGED <<text, box_width, box_height, width, height, font_size,
                   supersampling_factor, is_text_centered, font, line_spacing,
                   text_height, text_lines, words, min_index, max_index, depth,
                   runs>>
    /\ UNCHANGED <<screen_vars, fonts_vars>>

TextAreaNext ==
    \/ TextArea_post_init
    \/ TextArea_binary_len_search
    \/ TextArea_check_height

TextAreaSpec == TextAreaInit /\ [][TextAreaNext]_vars

\* =================================================================== Fonts
\* get_font is asked for these families and sizes; FontFiles are the families
\* that have a .ttf file under font_path.
FontNames == {"OpenSans-Regular", "OpenSans-SemiBold", "NoSuchFont"}
FontFiles == {"OpenSans-Regular", "OpenSans-SemiBold"}
FontPixelSizes == {18, 34}

Cached_never(cache, key) == FALSE

\* key in cache
Cached(cache, key) == key \in DOMAIN cache

\* cls.fonts = {}
FontsInit ==
    /\ fonts = <<>>
    /\ loads = <<>>
    /\ calls = <<>>
    /\ ScreenIdle
    /\ TextAreaIdle

\* Fonts.get_font(font_name, size).  ImageFont.truetype returns a new object
\* on every call (named by its rank among the loads) or raises OSError when
\* the file is missing; the call is logged with what it returned (None when
\* it raised).
Fonts_get_font(font_name, size) ==
    /\ Len(calls) < MaxCalls
    /\ LET fonts1 == IF ~Cached(fonts, font_name)
                        THEN (font_name :> <<>>) @@ fonts
                        ELSE fonts
       IN  IF ~Cached(fonts1[font_name], size)
              THEN IF font_name \in FontFiles
                      THEN LET handle == Len(loads) + 1
                           IN  /\ fonts' = (font_name :>
                                               ((size :> handle) @@ fonts1[font_name]))
                                           @@ fonts1
                               /\ loads' = Append(loads,
                                               [font_name |-> font_name, size |-> size])
                               /\ calls' = Append(calls,
                                               [font_name |-> font_name, size |-> size,
                                                result |-> handle])
                      ELSE /\ fonts' = fonts1
                           /\ loads' = loads
                           /\ calls' = Append(calls,
                                           [font_name |-> font_name, size |-> size,
                                            result |-> None])
              ELSE /\ fonts' = fonts
                   /\ loads' = loads
                   /\ calls' = Append(calls,
                                   [font_name |-> font_name, size |-> size,
                                    result |-> fonts1[font_name][size]])
    /\ UNCHANGED <<screen_vars, text_area_vars>>

FontsNext ==
    \E font_name \in FontNames, size \in FontPixelSizes :
        Fonts_get_font(font_name, size)

FontsSpec == FontsInit /\ [][FontsNext]_vars

\* ============================================================== properties
Min(a, b) == IF a < b THEN a ELSE b

\* Focus, read off a snapshot of the selection flags.
OnButton(s, i) ==
    /\ ~s.top_nav
    /\ s.selected_button = i
    /\ \A j \in DOMAIN s.buttons : s.buttons[j] <=> (j = i)

OnTopNav(s) ==
    /\ s.top_nav
    /\ \A j \in DOMAIN s.buttons : ~s.buttons[j]

\* The action a focused TopNav stands for.
TopNavAction ==
    CASE show_back_button -> RET_CODE__BACK_BUTTON
      [] ~show_back_button /\ show_power_button -> RET_CODE__POWER_BUTTON
      [] OTHER -> None

Steps == 1..Len(keys)

\* C1: in a ButtonListScreen of N buttons focus starts on button 0; after k
\* Down presses from the start it is on button min(k, N-1); a Down on the
\* last button changes nothing; an Up from button 0 moves focus to TopNav.
C1_ButtonListDownUp ==
    screen = ButtonListScreen =>
        /\ OnButton(trace[1], 0)
        /\ (\A i \in Steps : keys[i] = KEY_DOWN)
               => OnButton(Snapshot, Min(Len(keys), len_buttons - 1))
        /\ \A i \in Steps :
               /\ (keys[i] = KEY_DOWN /\ OnButton(trace[i], len_buttons - 1))
                      => trace[i + 1] = trace[i]
               /\ (keys[i] = KEY_UP /\ OnButton(trace[i], 0))
                      => OnTopNav(trace[i + 1])

C1_Witness ==
    /\ screen = ButtonListScreen
    /\ len_buttons = 2
    /\ keys = <<KEY_DOWN, KEY_DOWN, KEY_UP, KEY_UP>>
    /\ pc = "wait"
    /\ OnTopNav(Snapshot)

\* C2: in ButtonListScreen and LargeButtonScreen the run loop is left at the
\* first Confirm and at no other key, returning the focused button's index,
\* or the TopNav's action when TopNav is focused.
C2_ExitsAtFirstConfirm ==
    screen \in {ButtonListScreen, LargeButtonScreen} =>
        /\ pc = "wait" => \A i \in Steps : keys[i] # KEY_PRESS
        /\ pc \in {"returned", "raised"} =>
               /\ pc = "returned"
               /\ keys[Len(keys)] = KEY_PRESS
               /\ \A i \in 1..(Len(keys) - 1) : keys[i] # KEY_PRESS
               /\ ret = IF trace[Len(keys)].top_nav
                           THEN TopNavAction
                           ELSE trace[Len(keys)].selected_button

\* C3: whatever _run returns is a button index (>= 0) or one of the two
\* sentinels RET_CODE__BACK_BUTTON, RET_CODE__POWER_BUTTON.
C3_ReturnValueDomain ==
    pc = "returned" =>
        \/ ret >= 0
        \/ ret \in {RET_CODE__BACK_BUTTON, RET_CODE__POWER_BUTTON}

\* C4: handling a key never raises.
C4_NoError == pc # "raised"

\* C5: while ButtonListScreen or LargeButtonScreen waits for a key, either
\* TopNav is selected and no button is, or TopNav is not selected and exactly
\* one button is.
C5_ExactlyOneSelected ==
    (screen \in {ButtonListScreen, LargeButtonScreen} /\ pc = "wait") =>
        LET n == Cardinality({i \in DOMAIN buttons_is_selected :
                                  buttons_is_selected[i]})
        IN  \/ top_nav_is_selected /\ n = 0
            \/ ~top_nav_is_selected /\ n = 1

C5_Witness ==
    /\ screen = LargeButtonScreen
    /\ len_buttons = 4
    /\ pc = "wait"
    /\ keys = <<KEY_DOWN, KEY_UP, KEY_RIGHT, KEY_UP>>
    /\ top_nav_is_selected

\* C6: the cursor is on an existing, visible component: a focused button's
\* index is within 0..N-1, and a focused TopNav has a back or power button.
C6_CursorOnVisibleComponent ==
    /\ top_nav_is_selected => (show_back_button \/ show_power_button)
    /\ (~top_nav_is_selected /\ screen # TextTopNavScreen)
           => IsIndex(selected_button, len_buttons)

\* C7: the 4-button grid: Right 0->1, 2->3; Left 1->0, 3->2; Down 0->2, 1->3;
\* Up 2->0, 3->1; Down on the last row changes nothing; after Up from a
\* top-row button b, the next Down puts focus back on b.
C7_Grid4 ==
    (screen = LargeButtonScreen /\ len_buttons = 4) =>
        \A i \in Steps :
            LET s == trace[i]
                t == trace[i + 1]
                k == keys[i]
            IN  /\ (k = KEY_RIGHT /\ OnButton(s, 0)) => OnButton(t, 1)
                /\ (k = KEY_RIGHT /\ OnButton(s, 2)) => OnButton(t, 3)
                /\ (k = KEY_LEFT /\ OnButton(s, 1)) => OnButton(t, 0)
                /\ (k = KEY_LEFT /\ OnButton(s, 3)) => OnButton(t, 2)
                /\ (k = KEY_DOWN /\ OnButton(s, 0)) => OnButton(t, 2)
                /\ (k = KEY_DOWN /\ OnButton(s, 1)) => OnButton(t, 3)
                /\ (k = KEY_UP /\ OnButton(s, 2)) => OnButton(t, 0)
                /\ (k = KEY_UP /\ OnButton(s, 3)) => OnButton(t, 1)
                /\ (k = KEY_DOWN /\ (OnButton(s, 2) \/ OnButton(s, 3))) => t = s
                /\ \A b \in {0, 1} :
                       (k = KEY_UP /\ OnButton(s, b)) =>
                           /\ OnTopNav(t)
                           /\ \A j \in (i + 1)..Len(keys) :
                                  ( /\ keys[j] = KEY_DOWN
                                    /\ \A m \in (i + 1)..(j - 1) :
                                           keys[m] \in {KEY_UP, KEY_LEFT, KEY_RIGHT} )
                                      => OnButton(trace[j + 1], b)

C7_Witness ==
    /\ screen = LargeButtonScreen
    /\ len_buttons = 4
    /\ keys = <<KEY_RIGHT, KEY_UP, KEY_DOWN, KEY_DOWN, KEY_DOWN>>
    /\ pc = "wait"
    /\ OnButton(Snapshot, 3)

\* C8: the 2-button grid: focus starts on 0; Right 0->1; Left 1->0; Down on a
\* button changes nothing; the index stays in {0, 1}; Confirm on a button
\* returns its index.
C8_Grid2 ==
    (screen = LargeButtonScreen /\ len_buttons = 2) =>
        /\ OnButton(trace[1], 0)
        /\ \A i \in 1..Len(trace) : trace[i].selected_button \in {0, 1}
        /\ \A i \in Steps :
               LET s == trace[i]
                   t == trace[i + 1]
                   k == keys[i]
               IN  /\ (k = KEY_RIGHT /\ OnButton(s, 0)) => OnButton(t, 1)
                   /\ (k = KEY_LEFT /\ OnButton(s, 1)) => OnButton(t, 0)
                   /\ (k = KEY_DOWN /\ ~s.top_nav) => t = s
                   /\ \A b \in {0, 1} :
                          (k = KEY_PRESS /\ OnButton(s, b))
                              => (i = Len(keys) /\ pc = "returned" /\ ret = b)

C8_Witness ==
    /\ screen = LargeButtonScreen
    /\ len_buttons = 2
    /\ keys = <<KEY_RIGHT, KEY_PRESS>>
    /\ pc = "returned"
    /\ ret = 1

\* C9: TextTopNavScreen starts with nothing selected; Up leaves TopNav
\* selected, Down leaves it unselected; Confirm with TopNav selected returns
\* the TopNav's action; Confirm with TopNav unselected changes nothing and the
\* loop goes on.
C9_TextTopNav ==
    screen = TextTopNavScreen =>
        /\ ~trace[1].top_nav
        /\ pc # "raised"
        /\ pc = "returned" =>
               (keys[Len(keys)] = KEY_PRESS /\ trace[Len(keys)].top_nav)
        /\ \A i \in Steps :
               LET s == trace[i]
                   t == trace[i + 1]
                   k == keys[i]
               IN  /\ k = KEY_UP => t.top_nav
                   /\ k = KEY_DOWN => ~t.top_nav
                   /\ (k = KEY_PRESS /\ s.top_nav) =>
                          (i = Len(keys) /\ pc = "returned" /\ ret = TopNavAction)
                   /\ (k = KEY_PRESS /\ ~s.top_nav) =>
                          (t = s /\ (i = Len(keys) => pc = "wait"))

C9_Witness ==
    /\ screen = TextTopNavScreen
    /\ keys = <<KEY_PRESS, KEY_UP, KEY_UP, KEY_PRESS>>
    /\ pc = "returned"

\* C10: Confirm on a focused TopNav that has only the back button returns
\* RET_CODE__BACK_BUTTON; with only the power button it returns
\* RET_CODE__POWER_BUTTON.
C10_TopNavSentinel ==
    (pc = "returned" /\ trace[Len(keys)].top_nav) =>
        /\ (show_back_button /\ ~show_power_button)
               => ret = RET_CODE__BACK_BUTTON
        /\ (~show_back_button /\ show_power_button)
               => ret = RET_CODE__POWER_BUTTON

C10_Witness ==
    /\ pc = "returned"
    /\ trace[Len(keys)].top_nav
    /\ show_back_button /\ ~show_power_button
    /\ ret = RET_CODE__BACK_BUTTON

\* ------------------------------------------------------ TextArea properties
\* The line breaks are final: the one-line branch or the while loop has ended.
LinesFinal == ta_pc \in {"check", "done"}

\* The one-line branch was not taken.
MultiLineBranch == ta_pc \in {"search", "check", "raised", "RecursionError"}
                       \/ (ta_pc = "done" /\ runs # <<>>)

Usable == UsableWidth(width, supersampling_factor)

LineTexts == [i \in 1..Len(text_lines) |-> text_lines[i].text]

RECURSIVE Flatten(_)
Flatten(seqs) == IF seqs = <<>> THEN <<>> ELSE Head(seqs) \o Flatten(Tail(seqs))

\* C11: when the whole text is no wider than the usable width (equal
\* included), the layout is exactly one line holding the whole text.
C11_OneLineWhenFits ==
    (LinesFinal /\ getsize(text, font).w <= Usable) =>
        /\ Len(text_lines) = 1
        /\ text_lines[1].text = text

C11_Witness ==
    /\ ta_pc = "done"
    /\ getsize(text, font).w = Usable
    /\ Len(runs) = 1
    /\ Len(runs[1].words) >= 2
    /\ Len(text_lines) = 1

\* C12: for a text laid out by the multi-line branch, once the layout is
\* complete the lines joined by single spaces are the text, and their tokens
\* in order are the tokens of the text.
C12_LinesReproduceText ==
    (LinesFinal /\ MultiLineBranch) =>
        /\ join(LineTexts) = text
        /\ Flatten([i \in 1..Len(text_lines) |-> split(text_lines[i].text)])
               = split(text)

C12_Witness ==
    /\ ta_pc = "done"
    /\ Len(text_lines) >= 2
    /\ \E i \in 1..Len(split(text)) : split(text)[i] = <<>>
    /\ \E i \in 1..Len(split(text)) : split(text)[i] # <<>>

\* C13: every line of the layout is no wider than the usable width, unless it
\* is a single token.
C13_LinesFit ==
    ta_pc # "start" =>
        \A i \in 1..Len(text_lines) :
            \/ getsize(text_lines[i].text, font).w <= Usable
            \/ Len(split(text_lines[i].text)) = 1

C13_Witness ==
    /\ ta_pc = "done"
    /\ Len(text_lines) >= 2
    /\ \E i \in 1..Len(text_lines) :
           /\ Len(split(text_lines[i].text)) >= 2
           /\ getsize(text_lines[i].text, font).w = Usable

TokenFits(token) == getsize(token, font).w <= Usable

\* Every token of the text fits the usable width on its own.
AllTokensFit == \A j \in 1..Len(split(text)) : TokenFits(split(text)[j])

Total == TotalTextHeight(text_height, Len(text_lines), line_spacing)

\* C14: a search that starts at a token wider than the usable width returns a
\* run of exactly that one token, and the construction goes on to its end
\* instead of exhausting the stack.
C14_OversizedTokenAlone ==
    /\ (ta_pc \in {"search", "RecursionError"} /\ ~TokenFits(words[1]))
           => ta_pc # "RecursionError"
    /\ \A i \in 1..Len(runs) :
           ~TokenFits(runs[i].words[1]) => runs[i].index = 1

\* C15: the construction raises when the text block is taller than the box
\* and completes when it is not, on the one-line branch as on the other.
\* The box is taken with the tolerance the multi-line branch allows.
C15_OverflowIffTooTall ==
    LET limit == height + 2 * COMPONENT_PADDING * supersampling_factor
    IN  /\ ta_pc = "done" => Total <= limit
        /\ ta_pc = "raised" => Total > limit

\* C17: when every token fits, each search returns the longest run of leading
\* tokens that fits: the run fits, and it is all the remaining tokens or one
\* more token would not fit.
C17_LongestRun ==
    (ta_pc # "start" /\ AllTokensFit) =>
        \A i \in 1..Len(runs) :
            LET r == runs[i]
            IN  /\ r.index \in 1..Len(r.words)
                /\ text_lines[i].text = join(Leading(r.words, r.index))
                /\ getsize(text_lines[i].text, font).w <= Usable
                /\ \/ r.index = Len(r.words)
                   \/ getsize(join(Leading(r.words, r.index + 1)), font).w > Usable

C17_Witness ==
    /\ ta_pc = "done"
    /\ AllTokensFit
    /\ Len(runs) >= 2
    /\ runs[1].index >= 2
    /\ runs[1].index < Len(runs[1].words)
    /\ runs[1].calls >= 3

\* C18: when every token fits, no search exhausts the stack: it makes at most
\* two more calls than there are tokens left, returns a run of 1..remaining
\* tokens, and the layout has at most as many lines as the text has tokens.
C18_SearchTerminates ==
    (ta_pc # "start" /\ AllTokensFit) =>
        /\ ta_pc # "RecursionError"
        /\ depth <= Len(words) + 2
        /\ Len(text_lines) <= Len(split(text))
        /\ \A i \in 1..Len(runs) :
               /\ runs[i].index \in 1..Len(runs[i].words)
               /\ runs[i].calls <= Len(runs[i].words) + 2

C18_Witness ==
    /\ ta_pc = "done"
    /\ AllTokensFit
    /\ Len(text_lines) = 3
    /\ Len(split(text)) = 3

\* C19: text_y is the integer half of the upscaled box height less the height
\* of the text block, for one line as for several.
C19_VerticallyCentered ==
    ta_pc = "done" =>
        text_y = IntHalf(supersampling_factor * box_height - Total)

\* C20: every term of the text-block height is in upscaled units: under
\* supersampling factor s the inter-line spacing is s times what it is at
\* factor 1.
C20_SpacingUpscaled ==
    ta_pc # "start" =>
        line_spacing = supersampling_factor * LineSpacing(font_size)

\* ---------------------------------------------------------- Fonts properties
SamePair(a, b) == a.font_name = b.font_name /\ a.size = b.size

\* C16: get_font is a load-once cache: a call returns the handle the first
\* successful call for the same (family, size) returned, no pair is loaded
\* twice, and every handle ever returned is still cached under its pair.
C16_LoadOnceCache ==
    /\ \A i \in 1..Len(calls) : \A j \in (i + 1)..Len(calls) :
           (SamePair(calls[i], calls[j]) /\ calls[i].result # None)
               => calls[j].result = calls[i].result
    /\ \A i \in 1..Len(loads) : \A j \in (i + 1)..Len(loads) :
           ~SamePair(loads[i], loads[j])
    /\ \A i \in 1..Len(calls) :
           calls[i].result # None =>
               /\ calls[i].font_name \in DOMAIN fonts
               /\ calls[i].size \in DOMAIN fonts[calls[i].font_name]
               /\ fonts[calls[i].font_name][calls[i].size] = calls[i].result

C16_Witness ==
    /\ Len(calls) = 4
    /\ SamePair(calls[1], calls[3])
    /\ SamePair(calls[1], calls[4])
    /\ ~SamePair(calls[1], calls[2])
    /\ calls[1].result # None
    /\ calls[2].result # None
    /\ calls[2].result # calls[1].result
    /\ calls[4].result = calls[1].result
    /\ Len(loads) = 2

\* ------------------------------------------------------ rendering properties
\* Where in the last step's canvas operations an operation occurs.
Positions(name) == {i \in 1..Len(ops) : ops[i].op = name}

\* C21: display() clears the canvas once and first, draws TopNav before the
\* body text and the body before the buttons, draws every component, flushes
\* last, and only then is a key read; no later step clears the canvas.
C21_RenderOrder ==
    /\ pc = "constructed" => (keys = <<>> /\ ops = <<>>)
    /\ (pc = "wait" /\ keys = <<>>) =>
           /\ Positions("clear") = {1}
           /\ Positions("show") = {Len(ops)}
           /\ Positions("top_nav") # {}
           /\ \A i \in Positions("top_nav") :
                  \A j \in Positions("text_area") \cup Positions("button") : i < j
           /\ \A i \in Positions("text_area") : \A j \in Positions("button") : i < j
           /\ Cardinality(Positions("text_area")) =
                  (IF screen = TextTopNavScreen THEN 1 ELSE 0)
           /\ {ops[i].index : i \in Positions("button")} = 0..(len_buttons - 1)
    /\ keys # <<>> =>
           /\ Positions("clear") = {}
           /\ shown.top_nav # "blank"

C21_Witness ==
    /\ screen = ButtonListScreen
    /\ len_buttons = 3
    /\ pc = "wait"
    /\ keys = <<>>
    /\ Len(ops) = 6

\* C22: in ButtonListScreen and LargeButtonScreen a key that does not end the
\* loop re-renders exactly the components whose selection flag changed in that
\* step (nothing on a no-op), and one flush follows before the next key.
C22_RendersOnlyChanged ==
    (pc = "wait" /\ keys # <<>> /\ screen \in {ButtonListScreen, LargeButtonScreen}) =>
        LET before == trace[Len(keys)]
            after  == trace[Len(keys) + 1]
        IN  /\ {ops[i].index : i \in Positions("button")} =
                   {b \in DOMAIN after.buttons : before.buttons[b] # after.buttons[b]}
            /\ (Positions("top_nav") # {}) <=> (before.top_nav # after.top_nav)
            /\ Positions("text_area") = {}
            /\ Positions("clear") = {}
            /\ Positions("show") = {Len(ops)}

\* C23: at every flush (the one in display() and each one in the input loop)
\* the flushed canvas shows TopNav and every button in the state of its current
\* is_selected flag, and the configured back/power icon buttons carry, and are
\* drawn with, the TopNav's flag.
C23_CanvasMatchesFocus ==
    pc = "wait" =>
        /\ shown = canvas
        /\ shown.top_nav = DrawnAs(top_nav_is_selected)
        /\ \A i \in DOMAIN buttons_is_selected :
               shown.buttons[i] = DrawnAs(buttons_is_selected[i])
        /\ show_back_button =>
               /\ back_button_is_selected = top_nav_is_selected
               /\ shown.back_button = DrawnAs(top_nav_is_selected)
        /\ show_power_button =>
               /\ power_button_is_selected = top_nav_is_selected
               /\ shown.power_button = DrawnAs(top_nav_is_selected)

C23_Witness ==
    /\ screen = LargeButtonScreen
    /\ len_buttons = 4
    /\ show_back_button
    /\ pc = "wait"
    /\ keys = <<KEY_RIGHT, KEY_DOWN, KEY_UP, KEY_UP, KEY_DOWN>>
    /\ shown.buttons[1] = "selected"
    /\ shown.buttons[3] = "normal"
    /\ shown.back_button = "normal"

\* C24: in LargeButtonScreen, Left, Right and Up pressed while TopNav is focused
\* leave the focus state as it was: TopNav stays selected, no button becomes
\* selected and the remembered button index keeps its value, and the loop goes
\* on; a step taken from the TopNav that changes the focus is a Down.
C24_TopNavIgnoresLeftRightUp ==
    screen = LargeButtonScreen =>
        \A k \in Steps :
            trace[k].top_nav =>
                /\ keys[k] \in {KEY_LEFT, KEY_RIGHT, KEY_UP} =>
                       /\ Len(trace) > k
                       /\ trace[k + 1] = trace[k]
                       /\ OnTopNav(trace[k + 1])
                /\ (Len(trace) > k /\ trace[k + 1] # trace[k]) => keys[k] = KEY_DOWN
                /\ Len(trace) = k => keys[k] = KEY_PRESS

C24_Witness ==
    /\ screen = LargeButtonScreen
    /\ len_buttons = 4
    /\ pc = "wait"
    /\ keys = <<KEY_RIGHT, KEY_UP, KEY_LEFT, KEY_RIGHT, KEY_UP>>
    /\ top_nav_is_selected
    /\ selected_button = 1

\* C25: with both the back and the power icon button configured, a focused
\* TopNav has both highlighted and Confirm on it returns the back sentinel; on
\* every screen the power sentinel is returned only when no back button is
\* configured.
C25_BackWinsOverPower ==
    /\ (show_back_button /\ show_power_button) =>
           /\ (pc = "wait" /\ top_nav_is_selected) =>
                  /\ back_button_is_selected
                  /\ power_button_is_selected
                  /\ shown.back_button = "selected"
                  /\ shown.power_button = "selected"
           /\ (pc = "returned" /\ trace[Len(trace)].top_nav) =>
                  ret = RET_CODE__BACK_BUTTON
    /\ (pc = "returned" /\ ret = RET_CODE__POWER_BUTTON) =>
           /\ ~show_back_button
           /\ show_power_button

C25_Witness ==
    /\ show_back_button
    /\ show_power_button
    /\ screen = ButtonListScreen
    /\ pc = "returned"
    /\ keys = <<KEY_DOWN, KEY_UP, KEY_UP, KEY_PRESS>>
    /\ ret = RET_CODE__BACK_BUTTON
====
